---------------------------- MODULE Spec2Model ----------------------------
(***************************************************************************)
(* The streaming chat relay of the ChatInterface component                 *)
(* (src/src/components/chat/ChatInterface.tsx): handleSend, streamChat,    *)
(* generateVoice and the conversation-reset effect, as a state machine.    *)
(*                                                                         *)
(* Text.  A byte string and a decoded text are sequences of segments.  A   *)
(* segment is either one byte the code inspects on its own ("\n", "\r",    *)
(* " ", ":", a UTF-8 lead or continuation byte) or a run of ordinary bytes *)
(* named by its text.  Every literal of the wire protocol is written as    *)
(* two segments, so a transport chunk can end inside the `data: ` prefix,  *)
(* inside a JSON object, inside `[DONE]`, between the two bytes of a       *)
(* two-byte character, and before a line's "\n".                           *)
(***************************************************************************)
EXTENDS Naturals, Sequences, FiniteSets

(***************************************************************************)
(* Bounds of the model.                                                    *)
(***************************************************************************)
\* Lines of a response body in SpecDecode (one relay, every kind of line).
MaxLines == 3
\* Send events (button click or Enter) of a behaviour of Spec.
MaxSendEvents == 2
\* Changes of the conversationId prop in a behaviour of Spec.
MaxSwitches == 1

(***************************************************************************)
(* Bytes and characters.                                                   *)
(***************************************************************************)
\* The two bytes of U+00E9 in UTF-8 and the character they decode to.
LeadByte == "xC3"
ContByte == "xA9"
EAcute == "U+00E9"
Replacement == "U+FFFD"

\* What String.prototype.trim removes (of the segments the model uses).
Whitespace == {" ", "\t", "\r", "\n"}

\* `data: `, the prefix of a data line (ChatInterface.tsx:173,175).
DataPrefix == <<"da", "ta: ">>
\* `[DONE]`, the end-of-stream marker (ChatInterface.tsx:176).
DoneMarker == <<"[DO", "NE]">>
\* {"choices":[{"delta":{"content":"  ...  "}}]}  around a delta's text.
ContentOpen == <<"{\"choices\":[{\"delta\":{\"con", "tent\":\"">>
ContentClose == "\"}}]}"
\* A delta that carries a role and no content.
RolePayload == <<"{\"choices\":[{\"delta\":{\"ro", "le\":\"assistant\"}}]}">>
\* A payload that is not JSON.
NotJson == <<"not-", "json">>
\* The characters a delta's text is made of in the model.
StringChars == {"H", EAcute}

(***************************************************************************)
(* Sequence helpers.                                                       *)
(***************************************************************************)
Last(s) == s[Len(s)]

\* Sequences over S of length 0..n.
SeqsUpTo(S, n) == UNION {[1..k -> S] : k \in 0..n}

\* String.prototype.indexOf for a one-segment needle; 0 stands for -1.
IndexOf(s, t) ==
  LET hits == {i \in 1..Len(s) : s[i] = t}
  IN IF hits = {} THEN 0 ELSE CHOOSE i \in hits : \A j \in hits : i <= j

\* String.prototype.trim.
RECURSIVE TrimStart(_)
TrimStart(s) ==
  IF s # <<>> /\ Head(s) \in Whitespace THEN TrimStart(Tail(s)) ELSE s

RECURSIVE TrimEnd(_)
TrimEnd(s) ==
  IF s # <<>> /\ Last(s) \in Whitespace
  THEN TrimEnd(SubSeq(s, 1, Len(s) - 1)) ELSE s

Trim(s) == TrimEnd(TrimStart(s))

\* line.startsWith(p), for a prefix p given as segments.
StartsWith(s, p) == Len(s) >= Len(p) /\ SubSeq(s, 1, Len(p)) = p

(***************************************************************************)
(* TextDecoder.decode(value, { stream: true }) for UTF-8: `pending` is the *)
(* incomplete character carried over from the earlier chunks.  The result  *)
(* is the text decoded and the new carry.                                  *)
(***************************************************************************)
\* The bytes at the head of `bytes` that are characters by themselves
\* (neither the lead byte nor the continuation byte): how many there are.
PlainRun(bytes) ==
  LET special == {i \in 1..Len(bytes) : bytes[i] \in {LeadByte, ContByte}}
  IN IF special = {} THEN Len(bytes)
     ELSE (CHOOSE i \in special : \A j \in special : i <= j) - 1

RECURSIVE DecodeFrom(_, _, _)
DecodeFrom(bytes, pending, out) ==
  IF bytes = <<>> THEN [text |-> out, pending |-> pending]
  ELSE LET b == Head(bytes) IN
    IF pending # <<>>
    THEN IF b = ContByte
         THEN DecodeFrom(Tail(bytes), <<>>, Append(out, EAcute))
         ELSE DecodeFrom(bytes, <<>>, Append(out, Replacement))
    ELSE IF b = LeadByte THEN DecodeFrom(Tail(bytes), <<b>>, out)
    ELSE IF b = ContByte THEN DecodeFrom(Tail(bytes), <<>>, Append(out, Replacement))
    ELSE DecodeFrom(SubSeq(bytes, PlainRun(bytes) + 1, Len(bytes)), <<>>,
                    out \o SubSeq(bytes, 1, PlainRun(bytes)))

\* A decoder without the carry: an incomplete character at the end of a chunk
\* is flushed as U+FFFD (decode without { stream: true }).
DecodeNoStream(value, pending) ==
  LET r == DecodeFrom(value, <<>>, <<>>)
  IN [text |-> IF r.pending = <<>> THEN r.text ELSE Append(r.text, Replacement),
      pending |-> <<>>]

Decode(value, pending) == DecodeFrom(value, pending, <<>>)

\* The UTF-8 encoding of a text (what the upstream provider puts on the wire).
RECURSIVE Utf8(_)
Utf8(text) ==
  IF text = <<>> THEN <<>>
  ELSE (IF Head(text) = EAcute THEN <<LeadByte, ContByte>> ELSE <<Head(text)>>)
       \o Utf8(Tail(text))

(***************************************************************************)
(* JSON.parse(jsonStr) followed by parsed.choices?.[0]?.delta?.content,    *)
(* on the payload texts of the model: `throws` when the text is not JSON,  *)
(* otherwise the content ("" stands for undefined as well: both are falsy  *)
(* at ChatInterface.tsx:184).                                              *)
(***************************************************************************)
\* A parse that throws on a payload without content.
ParseContentStrict(jsonStr) ==
  LET n == Len(jsonStr) IN
  IF /\ n >= Len(ContentOpen) + 2
     /\ StartsWith(jsonStr, ContentOpen)
     /\ jsonStr[n] = ContentClose
     /\ \A i \in (Len(ContentOpen) + 1)..(n - 1) : jsonStr[i] \in StringChars
  THEN [throws |-> FALSE, content |-> SubSeq(jsonStr, Len(ContentOpen) + 1, n - 1)]
  ELSE [throws |-> TRUE, content |-> <<>>]

ParseContent(jsonStr) ==
  LET n == Len(jsonStr) IN
  IF /\ n >= Len(ContentOpen) + 1
     /\ StartsWith(jsonStr, ContentOpen)
     /\ jsonStr[n] = ContentClose
     /\ \A i \in (Len(ContentOpen) + 1)..(n - 1) : jsonStr[i] \in StringChars
  THEN [throws |-> FALSE, content |-> SubSeq(jsonStr, Len(ContentOpen) + 1, n - 1)]
  ELSE IF jsonStr = RolePayload
  THEN [throws |-> FALSE, content |-> <<>>]
  ELSE [throws |-> TRUE, content |-> <<>>]


(***************************************************************************)
(* Response bodies.  A script is the sequence of lines the proxy streams;  *)
(* a line is named by its kind and Bytes gives the bytes on the wire.      *)
(***************************************************************************)
LineKinds ==
  {"delta", "delta2", "done", "bad", "comment", "blank", "event", "role"}

\* The text a line contributes to the assistant message: the content of a
\* delta (what ChatInterface.tsx:183 reads), nothing for any other line.
LineDelta(kind) ==
  CASE kind = "delta" -> <<"H">>
    [] kind = "delta2" -> <<EAcute>>
    [] OTHER -> <<>>

LineBytes(kind) ==
  CASE kind = "delta" ->
         DataPrefix \o ContentOpen \o Utf8(LineDelta(kind)) \o <<ContentClose, "\n">>
    [] kind = "delta2" ->
         DataPrefix \o ContentOpen \o Utf8(LineDelta(kind)) \o <<ContentClose, "\r", "\n">>
    [] kind = "done" -> DataPrefix \o DoneMarker \o <<"\n">>
    [] kind = "bad" -> DataPrefix \o NotJson \o <<"\n">>
    [] kind = "comment" -> <<":", " ping", "\n">>
    [] kind = "blank" -> <<" ", "\n">>
    [] kind = "event" -> <<"eve", "nt: x", "\n">>
    [] kind = "role" -> DataPrefix \o RolePayload \o <<"\n">>

RECURSIVE Bytes(_)
Bytes(script) ==
  IF script = <<>> THEN <<>> ELSE LineBytes(Head(script)) \o Bytes(Tail(script))

\* The lines of a script before its first `data: [DONE]`.
BeforeDone(script) ==
  LET d == IndexOf(script, "done")
  IN IF d = 0 THEN script ELSE SubSeq(script, 1, d - 1)

\* d1 ++ d2 ++ ... ++ dn of the given lines.
RECURSIVE Deltas(_)
Deltas(lines) ==
  IF lines = <<>> THEN <<>> ELSE LineDelta(Head(lines)) \o Deltas(Tail(lines))

\* The body of an error response ({"error": ...}); the client never reads it.
ErrorBody == <<"{\"error\":", "\"...\"}">>

(***************************************************************************)
(* The accumulator: the updater passed to setMessages for one delta        *)
(* (ChatInterface.tsx:186-194).                                            *)
(***************************************************************************)
AssistantMessage(content) ==
  [role |-> "assistant", content |-> content, files |-> <<>>, audioContent |-> 0]

\* An updater that appends a message for every delta.
ApplyDeltaAppend(prev, assistantContent) ==
  Append(prev, AssistantMessage(assistantContent))

\* An updater that writes the running text into the last entry, whatever
\* its role.
ApplyDeltaOverwrite(prev, assistantContent) ==
  IF prev # <<>>
  THEN [prev EXCEPT ![Len(prev)].content = assistantContent]
  ELSE Append(prev, AssistantMessage(assistantContent))

ApplyDelta(prev, assistantContent) ==
  IF prev # <<>> /\ Last(prev).role = "assistant"
  THEN [prev EXCEPT ![Len(prev)].content = assistantContent]
  ELSE Append(prev, AssistantMessage(assistantContent))

(***************************************************************************)
(* The line loop of streamChat (ChatInterface.tsx:166-200) on the pending  *)
(* buffer: the state of the loop when it is left.                          *)
(***************************************************************************)
LoopState(textBuffer, assistantContent, streamDone, msgs) ==
  [textBuffer |-> textBuffer, assistantContent |-> assistantContent,
   streamDone |-> streamDone, messages |-> msgs]

RECURSIVE ProcessLines(_, _, _)

\* A catch that puts the line back without the newline that ended it.
PushbackNoNewline(line, rest, assistantContent, msgs) ==
  LoopState(line \o rest, assistantContent, FALSE, msgs)

\* A catch that drops the line and goes on with the next one.
PushbackSkip(line, rest, assistantContent, msgs) ==
  ProcessLines(rest, assistantContent, msgs)

\* What the loop does with a data line whose payload fails to parse
\* (ChatInterface.tsx:196-199): the line goes back in front of the buffer
\* and the loop is left.
Pushback(line, rest, assistantContent, msgs) ==
  LoopState(line \o <<"\n">> \o rest, assistantContent, FALSE, msgs)

\* A running text that takes the new delta in front.
AccumulatePrepend(assistantContent, content) == content \o assistantContent

\* assistantContent += content (line 185).
Accumulate(assistantContent, content) == assistantContent \o content

\* A loop that notes the marker and goes on with the lines after it.
OnDoneContinue(rest, assistantContent, msgs) ==
  [ProcessLines(rest, assistantContent, msgs) EXCEPT !.streamDone = TRUE]

\* What the loop does with `data: [DONE]` (ChatInterface.tsx:176-179).
OnDone(rest, assistantContent, msgs) ==
  LoopState(rest, assistantContent, TRUE, msgs)

ProcessLines(textBuffer, assistantContent, msgs) ==
  LET newlineIndex == IndexOf(textBuffer, "\n") IN
  IF newlineIndex = 0
  THEN LoopState(textBuffer, assistantContent, FALSE, msgs)
  ELSE
    LET raw == SubSeq(textBuffer, 1, newlineIndex - 1)
        rest == SubSeq(textBuffer, newlineIndex + 1, Len(textBuffer))
        line == IF raw # <<>> /\ Last(raw) = "\r"
                THEN SubSeq(raw, 1, Len(raw) - 1) ELSE raw
    IN
    IF StartsWith(line, <<":">>) \/ Trim(line) = <<>>
    THEN ProcessLines(rest, assistantContent, msgs)
    ELSE IF ~StartsWith(line, DataPrefix)
    THEN ProcessLines(rest, assistantContent, msgs)
    ELSE
      LET jsonStr == Trim(SubSeq(line, Len(DataPrefix) + 1, Len(line))) IN
      IF jsonStr = DoneMarker
      THEN OnDone(rest, assistantContent, msgs)
      ELSE
        LET parsed == ParseContent(jsonStr) IN
        IF parsed.throws
        THEN Pushback(line, rest, assistantContent, msgs)
        ELSE IF parsed.content # <<>>
        THEN ProcessLines(rest, Accumulate(assistantContent, parsed.content),
                          ApplyDelta(msgs, Accumulate(assistantContent, parsed.content)))
        ELSE ProcessLines(rest, assistantContent, msgs)

(***************************************************************************)
(* The chat proxy (src/unnamed/part_008): the request payload.             *)
(*                                                                         *)
(* A `messages` array is a sequence of runs; a run is `count` copies of    *)
(* one entry, so that arrays of 50 and 51 entries are small values.  The   *)
(* content of an entry is its type and, for a string, its length.          *)
(***************************************************************************)
\* messages.length > 50 (line 50) and msg.content.length > 10000 (line 71).
MaxMessages == 50
MaxContentLength == 10000
\* ['user', 'assistant', 'system'] (line 59).
Roles == {"user", "assistant", "system"}

\* The error messages of the handler, in the order of its tests.
NotArrayError == "Messages must be an array"
EmptyError == "Messages array cannot be empty"
TooManyError == "Messages array cannot exceed 50 messages"
RoleError == "Invalid message role. Must be user, assistant, or system"
ContentTypeError == "Message content must be a non-empty string"
ContentLengthError == "Message content cannot exceed 10,000 characters"
UnauthorizedError == "Unauthorized - Please log in"
RateLimitError == "Rate limits exceeded, please try again later."
PaymentError == "Payment required, please add funds to your Lovable AI workspace."
GatewayError == "AI gateway error"
ApiKeyError == "LOVABLE_API_KEY is not configured"
\* error.message of an exception the handler did not throw itself (a
\* TypeError, a SyntaxError of req.json(), a rejected fetch).
RuntimeError == "runtime error message"

StringContent(n) == [type |-> "string", length |-> n]
NumberContent == [type |-> "number", length |-> 0]

\* An entry of the array: an object with a role and a content, or null.
Entry(role, content) == [isNull |-> FALSE, role |-> role, content |-> content]
NullEntry == [isNull |-> TRUE, role |-> "", content |-> NumberContent]

\* The entries of the model: two that pass (the second with the longest
\* content allowed and the system role), and one or two for each test.
ProxyEntries ==
  { Entry("user", StringContent(1)),
    Entry("system", StringContent(MaxContentLength)),
    Entry("tool", StringContent(1)),
    Entry("tool", StringContent(MaxContentLength + 1)),
    Entry("user", StringContent(0)),
    Entry("user", NumberContent),
    Entry("user", StringContent(MaxContentLength + 1)),
    NullEntry }

\* The fixed instruction the handler puts first (lines 96-99).
SystemInstruction == Entry("system", [type |-> "string", length |-> 227])

Run(count, entry) == [count |-> count, entry |-> entry]

\* messages.length.
RECURSIVE ArrayLength(_)
ArrayLength(runs) ==
  IF runs = <<>> THEN 0 ELSE Head(runs).count + ArrayLength(Tail(runs))

\* The per-message tests (lines 58-77), in list order.  All the entries of a
\* run are the same, so the first decides for the run.  "throws" is the
\* TypeError of reading `.role` of null.
RECURSIVE ValidateEntries(_)
ValidateEntries(runs) ==
  IF runs = <<>> THEN "ok"
  ELSE LET msg == Head(runs).entry IN
    IF msg.isNull THEN "throws"
    ELSE IF msg.role = "" \/ msg.role \notin Roles THEN RoleError
    ELSE IF \/ msg.content.type # "string"
            \/ msg.content.length = 0 THEN ContentTypeError
    ELSE IF msg.content.length > MaxContentLength THEN ContentLengthError
    ELSE ValidateEntries(Tail(runs))

\* messages.length > 50 (line 50).
TooMany(n) == n > MaxMessages

\* The validation of lines 36-77: "ok", "throws" or the error message.
Validate(messages) ==
  IF messages.kind # "array" THEN NotArrayError
  ELSE IF ArrayLength(messages.runs) = 0 THEN EmptyError
  ELSE IF TooMany(ArrayLength(messages.runs)) THEN TooManyError
  ELSE ValidateEntries(messages.runs)

\* A forwarding that puts the instruction last.
UpstreamMessagesAppended(runs) == runs \o <<Run(1, SystemInstruction)>>

\* The `messages` of the upstream request (lines 95-101).
UpstreamMessages(runs) == <<Run(1, SystemInstruction)>> \o runs

(***************************************************************************)
(* The component.                                                          *)
(***************************************************************************)
VARIABLES
  messages,        \* useState<Message[]>: the list shown
  input,           \* useState: the text of the textarea
  uploadedFiles,   \* useState<UploadedFile[]>: names of the attached files
                   \* (no file is attached in the behaviours below)
  isLoading,       \* useState: the busy flag
  viewLoading,     \* isLoading as of the last committed render (what the
                   \* closures of the event handlers read)
  conversationId,  \* prop
  voiceEnabled,    \* prop
  relays,          \* the calls of streamChat, in the order they were made
  requests,        \* the POSTs issued to the chat proxy, in order
  sendEvents,      \* send events so far (clicks of Send, Enter keys)
  switches,        \* changes of conversationId so far
  proxy,           \* the chat proxy: the request being handled (part_008)
  served,          \* requests the proxy has received so far
  twin             \* the record of one relay, kept to feed a second relay
                   \* the same chunks (used by SpecTwin only)

clientVars == <<messages, input, uploadedFiles, isLoading, viewLoading,
                conversationId, voiceEnabled, relays, requests, sendEvents,
                switches>>
proxyVars == <<proxy, served>>
twinVars == <<twin>>
vars == <<clientVars, proxyVars, twinVars>>

Conversations == {"1", "2"}
Inputs == {<<>>, <<" ">>, <<"hi">>}
\* session === null; the session the auth client holds at the i-th call of
\* getSession is named i (a fresh credential per call).
NoSession == 0
Statuses == {200, 402, 429, 500}
DefaultPrompt == <<"Please analyze the attached files in depth">>

\* Toast titles (ChatInterface.tsx:91, 140, 146, 220).
AuthToast == "Authentication Required"
RateToast == "Rate Limit Exceeded"
PaymentToast == "Payment Required"
ErrorToast == "Error"

\* Sequences of lines of the given kinds.
Scripts(kinds, n) == SeqsUpTo(kinds, n)
DecodeScripts == Scripts(LineKinds, MaxLines)
\* The response bodies of Spec: only the marker, a delta and no marker, two
\* deltas and the marker.
RelayScripts == {<<"done">>, <<"delta">>, <<"delta", "delta2", "done">>}

\* What supabase.auth.getSession() resolves to.
SessionResults(i) ==
  {[session |-> s, sessionError |-> e] : s \in {NoSession, i}, e \in BOOLEAN}

\* What fetch resolves to: status, whether resp.body is there, its bytes and
\* (for the claims) the script the bytes were made from.
Responses(scripts) ==
  {[status |-> 200, hasBody |-> TRUE, script |-> sc, bytes |-> Bytes(sc)] : sc \in scripts}
  \cup {[status |-> 200, hasBody |-> FALSE, script |-> <<>>, bytes |-> <<>>]}
  \cup {[status |-> st, hasBody |-> TRUE, script |-> <<>>, bytes |-> ErrorBody] :
          st \in Statuses \ {200}}

\* Response.ok.
RespOk(resp) == resp.status >= 200 /\ resp.status <= 299

\* A test that forgets the status.
NoBodyOnly(resp) == ~resp.hasBody

\* !resp.ok || !resp.body (line 137).
StartsNoStream(resp) == ~RespOk(resp) \/ ~resp.hasBody

\* The locals of the proxy's handler; the handler has no other state.
IdleProxy ==
  [pc |-> "idle",                \* "getUser", "fetch", "stream", "responded"
   method |-> "",
   credential |-> "",            \* the Authorization header: absent, invalid, valid
   body |-> [json |-> "", messages |-> [kind |-> "", runs |-> <<>>]],
   user |-> FALSE,               \* getUser gave a user
   upstream |-> [called |-> FALSE, messages |-> <<>>, stream |-> FALSE],
   upstreamStatus |-> 0,
   upstreamChunks |-> <<>>,      \* the chunks of the upstream body
   chunksIn |-> <<>>,            \* those not yet passed on
   response |-> [status |-> 0, contentType |-> "", error |-> "", chunks |-> <<>>]]

\* Nothing recorded: the sizes of the chunks a relay was given, the relay
\* and the list as they were when it returned, and how many of the chunks
\* were given again.
NoTwin == [cuts |-> <<>>, runs |-> <<>>, replayed |-> 0]

Init ==
  /\ proxy = IdleProxy
  /\ served = 0
  /\ twin = NoTwin
  /\ messages = <<>>
  /\ input = <<>>
  /\ uploadedFiles = <<>>
  /\ isLoading = FALSE
  /\ viewLoading = FALSE
  /\ conversationId = "1"
  /\ voiceEnabled \in BOOLEAN
  /\ relays = <<>>
  /\ requests = <<>>
  /\ sendEvents = 0
  /\ switches = 0

\* The fields of a call of streamChat.
BlankRelay ==
  [pc |-> "getSession",          \* the await the call is suspended at
   userMessage |-> [role |-> "user", content |-> <<>>, files |-> <<>>,
                   audioContent |-> 0],
   history |-> <<>>,             \* `messages` of the closure (line 130)
   conv |-> "",                  \* the conversation the send was made in
   voice |-> FALSE,              \* `voiceEnabled` of the closure
   session |-> NoSession,
   status |-> 0,
   script |-> <<>>,
   wire |-> <<>>,                \* bytes of the body not yet delivered
   readerOpened |-> FALSE,       \* resp.body.getReader() was called
   delivered |-> FALSE,          \* the call read the body to its last byte
   pending |-> <<>>,             \* the decoder's incomplete character
   textBuffer |-> <<>>,
   assistantContent |-> <<>>,
   streamDone |-> FALSE,
   toasts |-> <<>>,              \* titles of the toasts this call raised
   voiceCalls |-> <<>>,          \* texts sent to text-to-speech
   voiceFailed |-> FALSE,        \* the call of text-to-speech failed
   ended |-> "no"]               \* the event that ended the call

\* A call whose running text is a variable of the module, not a local of
\* the call: it goes on from the text of the call before it.
NewRelayResumes(userMessage) ==
  [BlankRelay EXCEPT !.userMessage = userMessage, !.history = messages,
                     !.conv = conversationId, !.voice = voiceEnabled,
                     !.assistantContent =
                        IF relays = <<>> THEN <<>> ELSE Last(relays).assistantContent]

\* The state of a call of streamChat when handleSend makes it: reader,
\* decoder, textBuffer, streamDone and assistantContent are locals that the
\* call creates (lines 154-158).
NewRelay(userMessage) ==
  [BlankRelay EXCEPT !.userMessage = userMessage, !.history = messages,
                     !.conv = conversationId, !.voice = voiceEnabled]

Toast(r, title) == [r EXCEPT !.toasts = Append(@, title)]

\* A handler that clears the flag after the await, without `finally`, and so
\* only when the relay got to the end of its stream.
BusyAfterSuccessOnly(ended) == ended \notin {"marker", "readDone"}

\* The busy flag after handleSend's `finally` (lines 255-257): cleared,
\* however the call of streamChat ended.
BusyAfter(ended) == FALSE

\* streamChat returns and handleSend's finally runs (lines 255-257).  The
\* reader, the decoder and the pending buffer are locals of the call: they
\* are dropped with it.
Return(i, r, ended) ==
  /\ relays' = [relays EXCEPT ![i] =
                  [r EXCEPT !.pc = "returned", !.ended = ended,
                            !.delivered = (r.readerOpened /\ r.wire = <<>>),
                            !.wire = <<>>, !.pending = <<>>, !.textBuffer = <<>>]]
  /\ isLoading' = BusyAfter(ended)

RoleContent(m) == [role |-> m.role, content |-> m.content]

\* A body built from the list after the new message was appended to it.
RequestMessagesDuplicated(history, userMessage) ==
  [k \in 1..(Len(history) + 1) |-> RoleContent(Append(history, userMessage)[k])]
    \o <<RoleContent(userMessage)>>

\* `messages` of the POST body (lines 129-132): the list of the closure, each
\* entry reduced to role and content, then the new message with
\* messageContent, which is userMessage.content (line 99) and is not changed
\* afterwards.
RequestMessages(history, userMessage) ==
  [k \in 1..Len(history) |-> RoleContent(history[k])]
    \o <<RoleContent(userMessage)>>

\* A call that returned: its locals are gone.  The model keeps them (for the
\* properties) until the next call of streamChat is made.
Forget(r) ==
  IF r.pc = "returned"
  THEN [BlankRelay EXCEPT !.pc = "returned", !.ended = "forgotten", !.conv = r.conv]
  ELSE r

\* onChange of the textarea, a suggested prompt or a voice transcript.
SetInput(maxEvents) ==
  /\ sendEvents < maxEvents
  /\ \E v \in Inputs : v # input /\ input' = v
  /\ UNCHANGED <<messages, uploadedFiles, isLoading, viewLoading, conversationId,
                 voiceEnabled, relays, requests, sendEvents, switches>>

\* A guard that forgets the busy flag.
SendRefusedNoBusy == Trim(input) = <<>> /\ uploadedFiles = <<>>

\* The guard of handleSend (line 240), read from the rendered closure.
SendRefused == (Trim(input) = <<>> /\ uploadedFiles = <<>>) \/ viewLoading

\* handleSend up to its await (lines 239-254), from the Send button or from
\* handleKeyDown.  React commits the updates of the event before the next
\* event is dispatched, so the closures then read isLoading = TRUE.
HandleSend(maxEvents) ==
  /\ sendEvents < maxEvents
  /\ sendEvents' = sendEvents + 1
  /\ IF SendRefused
     THEN UNCHANGED <<messages, input, uploadedFiles, isLoading, viewLoading, relays>>
     ELSE LET userMessage ==
                [role |-> "user",
                 content |-> IF input # <<>> THEN input ELSE DefaultPrompt,
                 files |-> uploadedFiles,
                 audioContent |-> 0]
          IN /\ messages' = Append(messages, userMessage)
             /\ input' = <<>>
             /\ uploadedFiles' = <<>>
             /\ isLoading' = TRUE
             /\ viewLoading' = TRUE
             /\ relays' = Append([k \in 1..Len(relays) |-> Forget(relays[k])],
                                 NewRelay(userMessage))
  /\ UNCHANGED <<conversationId, voiceEnabled, requests, switches>>

\* A guard that looks at the error only.
SessionErrorOnly(res) == res.sessionError

\* sessionError || !session (line 89).
SessionMissing(res) == res.sessionError \/ res.session = NoSession

\* supabase.auth.getSession() resolves (lines 88-135).
GetSessionResolve(i) ==
  /\ relays[i].pc = "getSession"
  /\ \E res \in SessionResults(i) :
       LET r == relays[i] IN
       IF SessionMissing(res)
       THEN /\ Return(i, Toast(r, AuthToast), "noSession")
            /\ UNCHANGED requests
       ELSE /\ relays' = [relays EXCEPT ![i] = [r EXCEPT !.pc = "fetch",
                                                        !.session = res.session]]
            /\ requests' = Append(requests,
                 [relay |-> i,
                  authorization |-> res.session,
                  messages |-> RequestMessages(r.history, r.userMessage),
                  systemContext |-> r.userMessage.files])
            /\ UNCHANGED isLoading
  /\ UNCHANGED <<messages, input, uploadedFiles, viewLoading, conversationId,
                 voiceEnabled, sendEvents, switches>>

\* The toasts of lines 137-152 and 217-224 for a response that starts no stream.
HttpErrorToasts(r, status) ==
  Toast(IF status = 429 THEN Toast(r, RateToast)
        ELSE IF status = 402 THEN Toast(r, PaymentToast)
        ELSE r,
        ErrorToast)

\* fetch resolves or rejects (lines 122-158, 217-224).
FetchResolve(i, scripts) ==
  /\ relays[i].pc = "fetch"
  /\ LET r == relays[i] IN
     \/ Return(i, Toast(r, ErrorToast), "fetchError")
     \/ \E resp \in Responses(scripts) :
          LET got == [r EXCEPT !.status = resp.status, !.script = resp.script,
                               !.wire = resp.bytes]
          IN IF StartsNoStream(resp)
             THEN Return(i, HttpErrorToasts(got, resp.status), "httpError")
             ELSE /\ relays' = [relays EXCEPT ![i] =
                                  [got EXCEPT !.pc = "read", !.readerOpened = TRUE]]
                  /\ UNCHANGED isLoading
  /\ UNCHANGED <<messages, input, uploadedFiles, viewLoading, conversationId,
                 voiceEnabled, requests, sendEvents, switches>>

\* A test that reads the prop as it is when the decode loop is left.
VoiceSettingCurrent(r) == voiceEnabled

\* `voiceEnabled` as streamChat reads it (lines 70, 203): the value of the
\* render whose handleSend made the call.
VoiceSetting(r) == r.voice

\* The decode loop is left (lines 203-216): generateVoice is called when voice
\* is enabled and there is text, otherwise streamChat returns.
AfterStream(i, r, ended) ==
  IF VoiceSetting(r) /\ r.assistantContent # <<>>
  THEN /\ relays' = [relays EXCEPT ![i] =
                       [r EXCEPT !.pc = "voice", !.ended = ended,
                                 !.voiceCalls = Append(@, r.assistantContent)]]
       /\ UNCHANGED isLoading
  ELSE Return(i, r, ended)

\* reader.read() resolves with a chunk of n bytes: the first n bytes not yet
\* delivered (lines 161-201).
ReadChunkOf(i, n) ==
  /\ relays[i].pc = "read"
  /\ n \in 1..Len(relays[i].wire)
  /\ \E decoded \in {Decode(SubSeq(relays[i].wire, 1, n), relays[i].pending)} :
     \E loop \in {ProcessLines(relays[i].textBuffer \o decoded.text,
                               relays[i].assistantContent, messages)} :
     \E after \in {[relays[i] EXCEPT
                       !.wire = SubSeq(relays[i].wire, n + 1, Len(relays[i].wire)),
                       !.pending = decoded.pending,
                       !.textBuffer = loop.textBuffer,
                       !.assistantContent = loop.assistantContent,
                       !.streamDone = loop.streamDone]} :
        /\ messages' = loop.messages
        /\ IF loop.streamDone
           THEN AfterStream(i, after, "marker")
           ELSE relays' = [relays EXCEPT ![i] = after] /\ UNCHANGED isLoading
  /\ UNCHANGED <<input, uploadedFiles, viewLoading, conversationId, voiceEnabled,
                 requests, sendEvents, switches>>

\* The transport cuts the body where it likes.
ReadChunk(i) == \E n \in 1..Len(relays[i].wire) : ReadChunkOf(i, n)

\* A loop that asks for the next chunk when the reader reports the end.
ReadDoneIgnored(i) ==
  /\ relays[i].pc = "read"
  /\ UNCHANGED clientVars

\* reader.read() resolves with done: the transport closed (line 162).
ReadDone(i) ==
  /\ relays[i].pc = "read"
  /\ AfterStream(i, relays[i], "readDone")
  /\ UNCHANGED <<messages, input, uploadedFiles, viewLoading, conversationId,
                 voiceEnabled, requests, sendEvents, switches>>

\* A catch that rolls the partial assistant message back.
CatchRollback(msgs) ==
  IF msgs # <<>> /\ Last(msgs).role = "assistant"
  THEN SubSeq(msgs, 1, Len(msgs) - 1) ELSE msgs

\* What the catch of streamChat does to the message list (lines 217-224):
\* it logs and raises a toast, the list stays as it is.
CatchMessages(msgs) == msgs

\* reader.read() rejects: the transport failed (lines 161, 217-224).
ReadError(i) ==
  /\ relays[i].pc = "read"
  /\ Return(i, Toast(relays[i], ErrorToast), "readError")
  /\ messages' = CatchMessages(messages)
  /\ UNCHANGED <<input, uploadedFiles, viewLoading, conversationId, voiceEnabled,
                 requests, sendEvents, switches>>

\* An updater that gives the audio to the first assistant message of the list.
AttachAudioFirst(prev, audioContent) ==
  LET ks == {k \in 1..Len(prev) : prev[k].role = "assistant"} IN
  IF ks = {} THEN prev
  ELSE [prev EXCEPT ![CHOOSE k \in ks : \A j \in ks : k <= j].audioContent =
                      audioContent]

\* The updater of lines 206-214: the audio goes to the last message when it
\* is an assistant message.
AttachAudio(prev, audioContent) ==
  IF prev # <<>> /\ Last(prev).role = "assistant"
  THEN [prev EXCEPT ![Len(prev)].audioContent = audioContent]
  ELSE prev

\* How supabase.functions.invoke('text-to-speech') settles: with the audio,
\* with an error in its result, or by throwing.
VoiceOutcomes == {"audio", "error", "threw"}
VoiceFailures == {"error", "threw"}

\* generateVoice (lines 69-83): what it returns.  The audio synthesized for
\* call i is named i; 0 is undefined, which is what the function returns after
\* its catch (`if (error) throw error` at line 77 goes to the same catch).
GenerateVoice(outcome, i) == IF outcome = "audio" THEN i ELSE 0

\* A catch that tells the user about the failure.
VoiceFailureSurfaced(r, outcome) ==
  IF outcome \in VoiceFailures THEN Toast(r, ErrorToast) ELSE r

\* The catch of generateVoice (lines 80-82): console.error and nothing else.
VoiceFailureToasts(r, outcome) == r

\* supabase.functions.invoke('text-to-speech') settles (lines 69-83, 204-216).
VoiceResolve(i) ==
  /\ relays[i].pc = "voice"
  /\ \E outcome \in VoiceOutcomes :
       LET audioContent == GenerateVoice(outcome, i) IN
       /\ messages' = IF audioContent # 0 THEN AttachAudio(messages, audioContent)
                      ELSE messages
       /\ Return(i, [VoiceFailureToasts(relays[i], outcome) EXCEPT
                       !.voiceFailed = (outcome \in VoiceFailures)],
                 relays[i].ended)
  /\ UNCHANGED <<input, uploadedFiles, viewLoading, conversationId, voiceEnabled,
                 requests, sendEvents, switches>>

\* React commits a render after updates made outside an event handler.
Render ==
  /\ viewLoading # isLoading
  /\ viewLoading' = isLoading
  /\ UNCHANGED <<messages, input, uploadedFiles, isLoading, conversationId,
                 voiceEnabled, relays, requests, sendEvents, switches>>

\* The conversationId prop changes and the effect of lines 56-59 runs.
ConversationChange ==
  /\ switches < MaxSwitches
  /\ switches' = switches + 1
  /\ \E c \in Conversations \ {conversationId} : conversationId' = c
  /\ messages' = <<>>
  /\ viewLoading' = isLoading
  /\ UNCHANGED <<input, uploadedFiles, isLoading, voiceEnabled, relays, requests,
                 sendEvents>>

Next ==
  \/ SetInput(MaxSendEvents) /\ UNCHANGED <<proxyVars, twinVars>>
  \/ HandleSend(MaxSendEvents) /\ UNCHANGED <<proxyVars, twinVars>>
  \/ \E i \in 1..Len(relays) : GetSessionResolve(i) /\ UNCHANGED <<proxyVars, twinVars>>
  \/ \E i \in 1..Len(relays) : FetchResolve(i, RelayScripts) /\ UNCHANGED <<proxyVars, twinVars>>
  \/ \E i \in 1..Len(relays) : ReadChunk(i) /\ UNCHANGED <<proxyVars, twinVars>>
  \/ \E i \in 1..Len(relays) : ReadDone(i) /\ UNCHANGED <<proxyVars, twinVars>>
  \/ \E i \in 1..Len(relays) : ReadError(i) /\ UNCHANGED <<proxyVars, twinVars>>
  \/ \E i \in 1..Len(relays) : VoiceResolve(i) /\ UNCHANGED <<proxyVars, twinVars>>
  \/ Render /\ UNCHANGED <<proxyVars, twinVars>>
  \/ ConversationChange /\ UNCHANGED <<proxyVars, twinVars>>

Spec == Init /\ [][Next]_vars

(***************************************************************************)
(* The component when every awaited call settles: the session lookup, the  *)
(* fetch, each read of the body and the speech synthesis resolve or        *)
(* reject.  A body is finite, so the reads that resolve with a chunk come  *)
(* to an end by themselves (ReadChunk needs bytes not yet delivered); what *)
(* is left to require of the reads is that the one after the last chunk    *)
(* settles, with the end of the body or with an error.                     *)
(***************************************************************************)
Settles ==
  /\ WF_vars(\E i \in 1..Len(relays) :
               GetSessionResolve(i) /\ UNCHANGED <<proxyVars, twinVars>>)
  /\ WF_vars(\E i \in 1..Len(relays) :
               FetchResolve(i, RelayScripts) /\ UNCHANGED <<proxyVars, twinVars>>)
  /\ WF_vars(\E i \in 1..Len(relays) :
               (ReadDone(i) \/ ReadError(i)) /\ UNCHANGED <<proxyVars, twinVars>>)
  /\ WF_vars(\E i \in 1..Len(relays) :
               VoiceResolve(i) /\ UNCHANGED <<proxyVars, twinVars>>)

SpecLive == Init /\ [][Next]_vars /\ Settles

(***************************************************************************)
(* One send with attachments: files are added to and removed from the      *)
(* upload list before the send.                                            *)
(***************************************************************************)
\* Files in the upload list.
MaxFiles == 2
FileNames == {"a.pdf", "b.png"}

\* onFileUpload of FileUpload (line 379).
AttachFile ==
  /\ sendEvents = 0
  /\ Len(uploadedFiles) < MaxFiles
  /\ \E f \in FileNames : uploadedFiles' = Append(uploadedFiles, f)
  /\ UNCHANGED <<messages, input, isLoading, viewLoading, conversationId,
                 voiceEnabled, relays, requests, sendEvents, switches>>

\* prev.filter(f => f.name !== fileName) (lines 380, 395).
RECURSIVE Without(_, _)
Without(files, fileName) ==
  IF files = <<>> THEN <<>>
  ELSE (IF Head(files) = fileName THEN <<>> ELSE <<Head(files)>>)
       \o Without(Tail(files), fileName)

\* onFileRemove of FileUpload, or the remove button of a file (lines 380, 395).
RemoveFile ==
  /\ sendEvents = 0
  /\ \E k \in 1..Len(uploadedFiles) :
       uploadedFiles' = Without(uploadedFiles, uploadedFiles[k])
  /\ UNCHANGED <<messages, input, isLoading, viewLoading, conversationId,
                 voiceEnabled, relays, requests, sendEvents, switches>>

AttachScripts == {<<"delta", "done">>}

NextAttach ==
  \/ SetInput(1) /\ UNCHANGED <<proxyVars, twinVars>>
  \/ AttachFile /\ UNCHANGED <<proxyVars, twinVars>>
  \/ RemoveFile /\ UNCHANGED <<proxyVars, twinVars>>
  \/ HandleSend(1) /\ UNCHANGED <<proxyVars, twinVars>>
  \/ \E i \in 1..Len(relays) : GetSessionResolve(i) /\ UNCHANGED <<proxyVars, twinVars>>
  \/ \E i \in 1..Len(relays) : FetchResolve(i, AttachScripts) /\ UNCHANGED <<proxyVars, twinVars>>
  \/ \E i \in 1..Len(relays) : ReadChunk(i) /\ UNCHANGED <<proxyVars, twinVars>>
  \/ \E i \in 1..Len(relays) : ReadDone(i) /\ UNCHANGED <<proxyVars, twinVars>>
  \/ \E i \in 1..Len(relays) : ReadError(i) /\ UNCHANGED <<proxyVars, twinVars>>
  \/ Render /\ UNCHANGED <<proxyVars, twinVars>>

InitAttach == Init /\ voiceEnabled = FALSE

SpecAttach == InitAttach /\ [][NextAttach]_vars

(***************************************************************************)
(* The decoder of one relay: one send, voice off, no conversation change,  *)
(* and a response body of up to MaxLines lines of every kind.              *)
(***************************************************************************)
InitDecode == Init /\ voiceEnabled = FALSE

NextDecode ==
  \/ SetInput(1) /\ UNCHANGED <<proxyVars, twinVars>>
  \/ HandleSend(1) /\ UNCHANGED <<proxyVars, twinVars>>
  \/ \E i \in 1..Len(relays) : GetSessionResolve(i) /\ UNCHANGED <<proxyVars, twinVars>>
  \/ \E i \in 1..Len(relays) : FetchResolve(i, DecodeScripts) /\ UNCHANGED <<proxyVars, twinVars>>
  \/ \E i \in 1..Len(relays) : ReadChunk(i) /\ UNCHANGED <<proxyVars, twinVars>>
  \/ \E i \in 1..Len(relays) : ReadDone(i) /\ UNCHANGED <<proxyVars, twinVars>>
  \/ \E i \in 1..Len(relays) : ReadError(i) /\ UNCHANGED <<proxyVars, twinVars>>
  \/ Render /\ UNCHANGED <<proxyVars, twinVars>>

SpecDecode == InitDecode /\ [][NextDecode]_vars

(***************************************************************************)
(* The decoder when the transport closes the body: the read that follows   *)
(* the last chunk the transport delivers resolves with `done`.  The bodies *)
(* have a line for each way an iteration of the line loop can go: a delta  *)
(* (the line is removed and applied), a comment (removed and passed over), *)
(* a malformed line (put back, the loop is left) and the marker (the loop  *)
(* is left for good).                                                      *)
(***************************************************************************)
LoopKinds == {"delta2", "comment", "bad", "done"}
LoopScripts == Scripts(LoopKinds, MaxLines)

NextDecodeLive ==
  \/ SetInput(1) /\ UNCHANGED <<proxyVars, twinVars>>
  \/ HandleSend(1) /\ UNCHANGED <<proxyVars, twinVars>>
  \/ \E i \in 1..Len(relays) : GetSessionResolve(i) /\ UNCHANGED <<proxyVars, twinVars>>
  \/ \E i \in 1..Len(relays) : FetchResolve(i, LoopScripts) /\ UNCHANGED <<proxyVars, twinVars>>
  \/ \E i \in 1..Len(relays) : ReadChunk(i) /\ UNCHANGED <<proxyVars, twinVars>>
  \/ \E i \in 1..Len(relays) : ReadDone(i) /\ UNCHANGED <<proxyVars, twinVars>>
  \/ \E i \in 1..Len(relays) : ReadError(i) /\ UNCHANGED <<proxyVars, twinVars>>
  \/ Render /\ UNCHANGED <<proxyVars, twinVars>>

TransportCloses ==
  WF_vars(\E i \in 1..Len(relays) : ReadDone(i) /\ UNCHANGED <<proxyVars, twinVars>>)

SpecDecodeLive == InitDecode /\ [][NextDecodeLive]_vars /\ TransportCloses

(***************************************************************************)
(* Two relays on the same chunks.  The first relay reads a body cut as the *)
(* transport likes, and the sizes of its chunks are recorded.  When it has *)
(* returned, the conversation changes (the list is empty again, as it was  *)
(* before the first send) and the relay and the list are recorded.  The    *)
(* second relay gets the same response, cut into the same chunks and ended *)
(* the same way.                                                           *)
(***************************************************************************)
TwinScripts == {<<"delta2", "done">>, <<"bad", "delta">>}
ReadEndings == {"marker", "readDone", "readError"}

\* The first relay reads a chunk.
TwinRead ==
  /\ Len(relays) = 1
  /\ \E n \in 1..Len(relays[1].wire) :
       /\ ReadChunkOf(1, n)
       /\ twin' = [twin EXCEPT !.cuts = Append(@, n)]
  /\ UNCHANGED proxyVars

\* The conversation changes after the first relay has read its body.
TwinReset ==
  /\ Len(relays) = 1
  /\ relays[1].pc = "returned"
  /\ relays[1].ended \in ReadEndings
  /\ twin.runs = <<>>
  /\ ConversationChange
  /\ twin' = [twin EXCEPT !.runs = <<[relay |-> relays[1], messages |-> messages]>>]
  /\ UNCHANGED proxyVars

\* The second send is made once the first relay is recorded.
TwinSend ==
  /\ relays = <<>> \/ twin.runs # <<>>
  /\ HandleSend(2)
  /\ UNCHANGED <<proxyVars, twinVars>>

\* The second relay gets the response the first relay got.
TwinFetch ==
  /\ Len(relays) = 2
  /\ FetchResolve(2, {twin.runs[1].relay.script})
  /\ relays'[2].pc = "read"
  /\ UNCHANGED <<proxyVars, twinVars>>

\* The second relay reads the next chunk, of the size the first relay got.
TwinReplay ==
  /\ Len(relays) = 2
  /\ twin.replayed < Len(twin.cuts)
  /\ ReadChunkOf(2, twin.cuts[twin.replayed + 1])
  /\ twin' = [twin EXCEPT !.replayed = @ + 1]
  /\ UNCHANGED proxyVars

\* After the last chunk the second relay's read settles as the first one's did.
TwinEnd ==
  /\ Len(relays) = 2
  /\ twin.replayed = Len(twin.cuts)
  /\ \/ twin.runs[1].relay.ended = "readDone" /\ ReadDone(2)
     \/ twin.runs[1].relay.ended = "readError" /\ ReadError(2)
  /\ UNCHANGED <<proxyVars, twinVars>>

NextTwin ==
  \/ input = <<>> /\ ~isLoading /\ SetInput(2) /\ UNCHANGED <<proxyVars, twinVars>>
  \/ TwinSend
  \/ \E i \in 1..Len(relays) : GetSessionResolve(i) /\ UNCHANGED <<proxyVars, twinVars>>
  \/ Len(relays) = 1 /\ FetchResolve(1, TwinScripts) /\ UNCHANGED <<proxyVars, twinVars>>
  \/ TwinRead
  \/ Len(relays) = 1 /\ ReadDone(1) /\ UNCHANGED <<proxyVars, twinVars>>
  \/ Len(relays) = 1 /\ ReadError(1) /\ UNCHANGED <<proxyVars, twinVars>>
  \/ TwinReset
  \/ TwinFetch
  \/ TwinReplay
  \/ TwinEnd
  \/ Render /\ UNCHANGED <<proxyVars, twinVars>>

SpecTwin == InitDecode /\ [][NextTwin]_vars

(***************************************************************************)
(* The component with the voice toggle of the page (src/pages/Chat.tsx:34) *)
(* and no change of conversation.                                          *)
(***************************************************************************)
\* onVoiceToggle: setVoiceEnabled(!voiceEnabled), and the page renders.
ToggleVoice ==
  /\ voiceEnabled' = ~voiceEnabled
  /\ viewLoading' = isLoading
  /\ UNCHANGED <<messages, input, uploadedFiles, isLoading, conversationId,
                 relays, requests, sendEvents, switches>>

VoiceScripts == {<<"done">>, <<"delta", "done">>}

NextVoice ==
  \/ SetInput(MaxSendEvents) /\ UNCHANGED <<proxyVars, twinVars>>
  \/ HandleSend(MaxSendEvents) /\ UNCHANGED <<proxyVars, twinVars>>
  \/ ToggleVoice /\ UNCHANGED <<proxyVars, twinVars>>
  \/ \E i \in 1..Len(relays) : GetSessionResolve(i) /\ UNCHANGED <<proxyVars, twinVars>>
  \/ \E i \in 1..Len(relays) : FetchResolve(i, VoiceScripts) /\ UNCHANGED <<proxyVars, twinVars>>
  \/ \E i \in 1..Len(relays) : ReadChunk(i) /\ UNCHANGED <<proxyVars, twinVars>>
  \/ \E i \in 1..Len(relays) : ReadDone(i) /\ UNCHANGED <<proxyVars, twinVars>>
  \/ \E i \in 1..Len(relays) : ReadError(i) /\ UNCHANGED <<proxyVars, twinVars>>
  \/ \E i \in 1..Len(relays) : VoiceResolve(i) /\ UNCHANGED <<proxyVars, twinVars>>
  \/ Render /\ UNCHANGED <<proxyVars, twinVars>>

SpecVoice == Init /\ [][NextVoice]_vars

(***************************************************************************)
(* The chat proxy (src/unnamed/part_008): the handler of one request, step *)
(* by step at its awaits.  The handler shares no variable with the         *)
(* handlers of other requests (the only module-level value is the constant *)
(* corsHeaders), so the requests are taken one after the other.            *)
(***************************************************************************)
\* Runs of an array, chunks of an upstream body, requests of a behaviour.
MaxRuns == 2
MaxChunks == 2
MaxRequests == 2

Methods == {"OPTIONS", "POST"}
Credentials == {"absent", "invalid", "valid"}
RunCounts == {1, MaxMessages}
ProxyRuns == {Run(c, e) : c \in RunCounts, e \in ProxyEntries}

\* What `messages` of the parsed body can be: an array, or something else.
MessagesValues ==
  {[kind |-> "array", runs |-> rs] : rs \in SeqsUpTo(ProxyRuns, MaxRuns)}
  \cup {[kind |-> k, runs |-> <<>>] : k \in {"undefined", "null", "string", "object"}}

\* The request body: a JSON object, the JSON value null, or no JSON at all.
Bodies ==
  {[json |-> "object", messages |-> m] : m \in MessagesValues}
  \cup {[json |-> j, messages |-> [kind |-> "undefined", runs |-> <<>>]] :
           j \in {"null", "invalid"}}

UpstreamStatuses == {200, 402, 429, 500, 503}
ChunkNames == {"c1", "c2"}

\* new Response(JSON.stringify({ error }), { status, 'application/json' }).
JsonError(status, error) ==
  [status |-> status, contentType |-> "application/json", error |-> error,
   chunks |-> <<>>]

\* new Response(null, { headers: corsHeaders }) (line 12).
Preflight == [status |-> 200, contentType |-> "", error |-> "", chunks |-> <<>>]

\* new Response(response.body, { 'text/event-stream' }) (lines 127-129).
EventStream ==
  [status |-> 200, contentType |-> "text/event-stream", error |-> "",
   chunks |-> <<>>]

Respond(p, response) == [p EXCEPT !.pc = "responded", !.response = response]

\* A request arrives (lines 10-13): a preflight is answered at once.
ProxyRequest ==
  /\ served < MaxRequests
  /\ proxy.pc = "idle"
  /\ served' = served + 1
  /\ \E method \in Methods, credential \in Credentials, body \in Bodies :
       LET p == [IdleProxy EXCEPT !.method = method, !.credential = credential,
                                  !.body = body]
       IN proxy' = IF method = "OPTIONS" THEN Respond(p, Preflight)
                   ELSE [p EXCEPT !.pc = "getUser"]
  /\ UNCHANGED <<clientVars, twinVars>>

\* What supabaseClient.auth.getUser() resolves to for a credential.
UserResults(credential) ==
  IF credential = "valid"
  THEN {[user |-> TRUE, authError |-> FALSE], [user |-> FALSE, authError |-> TRUE]}
  ELSE {[user |-> FALSE, authError |-> TRUE], [user |-> FALSE, authError |-> FALSE]}

\* A test that looks at the error only.
UnauthorizedErrorOnly(res) == res.authError

\* authError || !user (line 24).
Unauthorized(res) == res.authError \/ ~res.user

\* Lines 33-104 for an authenticated request: req.json(), the validation,
\* the API key, and the upstream request.  An exception goes to the catch of
\* lines 130-136.
AfterAuth(p, apiKey) ==
  LET v == Validate(p.body.messages) IN
  IF p.body.json # "object" THEN Respond(p, JsonError(500, RuntimeError))
  ELSE IF v = "throws" THEN Respond(p, JsonError(500, RuntimeError))
  ELSE IF v # "ok" THEN Respond(p, JsonError(400, v))
  ELSE IF ~apiKey THEN Respond(p, JsonError(500, ApiKeyError))
  ELSE [p EXCEPT !.pc = "fetch",
                 !.upstream = [called |-> TRUE,
                               messages |-> UpstreamMessages(p.body.messages.runs),
                               stream |-> TRUE]]

\* getUser resolves (lines 23-104).
ProxyGetUserResolve ==
  /\ proxy.pc = "getUser"
  /\ \E res \in UserResults(proxy.credential), apiKey \in BOOLEAN :
       proxy' = IF Unauthorized(res)
                THEN Respond(proxy, JsonError(401, UnauthorizedError))
                ELSE AfterAuth([proxy EXCEPT !.user = TRUE], apiKey)
  /\ UNCHANGED <<served, clientVars, twinVars>>

\* A mapping that passes the upstream status on.
ErrorStatusPassed(status) == status

\* The status of the response for an upstream status that is not ok
\* (lines 106-125).
ErrorStatus(status) ==
  IF status = 429 THEN 429 ELSE IF status = 402 THEN 402 ELSE 500

ErrorMessage(status) ==
  IF status = 429 THEN RateLimitError
  ELSE IF status = 402 THEN PaymentError
  ELSE GatewayError

\* The upstream fetch settles (lines 87-136).
ProxyFetchResolve ==
  /\ proxy.pc = "fetch"
  /\ \/ proxy' = Respond(proxy, JsonError(500, RuntimeError))
     \/ \E status \in UpstreamStatuses \ {200} :
          proxy' = Respond([proxy EXCEPT !.upstreamStatus = status],
                           JsonError(ErrorStatus(status), ErrorMessage(status)))
     \/ \E chunks \in SeqsUpTo(ChunkNames, MaxChunks) :
          proxy' = [proxy EXCEPT !.pc = "stream", !.upstreamStatus = 200,
                                 !.upstreamChunks = chunks, !.chunksIn = chunks,
                                 !.response = EventStream]
  /\ UNCHANGED <<served, clientVars, twinVars>>

\* A pipe that rewrites what it passes.
PipeChunkRewritten(chunk) == "c1"

\* The body of the response is the upstream body itself (line 127): a chunk
\* goes out as it came in.
PipeChunk(chunk) == chunk

\* The runtime passes the next upstream chunk to the client.
ProxyPipe ==
  /\ proxy.pc = "stream"
  /\ proxy.chunksIn # <<>>
  /\ proxy' = [proxy EXCEPT !.chunksIn = Tail(@),
                 !.response.chunks = Append(@, PipeChunk(Head(proxy.chunksIn)))]
  /\ UNCHANGED <<served, clientVars, twinVars>>

\* The upstream body ends, and the response with it.
ProxyPipeEnd ==
  /\ proxy.pc = "stream"
  /\ proxy.chunksIn = <<>>
  /\ proxy' = [proxy EXCEPT !.pc = "responded"]
  /\ UNCHANGED <<served, clientVars, twinVars>>

\* The response is complete and the handler's locals are released.
ProxyClose ==
  /\ proxy.pc = "responded"
  /\ proxy' = IdleProxy
  /\ UNCHANGED <<served, clientVars, twinVars>>

InitProxy == Init /\ voiceEnabled = FALSE

NextProxy ==
  \/ ProxyRequest
  \/ ProxyGetUserResolve
  \/ ProxyFetchResolve
  \/ ProxyPipe
  \/ ProxyPipeEnd
  \/ ProxyClose

SpecProxy == InitProxy /\ [][NextProxy]_vars

(***************************************************************************)
(* Properties.                                                             *)
(***************************************************************************)
RelayIds == 1..Len(relays)

\* A call whose fields the model still holds.
Known(r) == r.ended # "forgotten"

\* A call that has been made and has not returned.
Active(r) == r.pc # "returned"

\* The decode loop of the call was left with the body read to its last byte
\* and without a transport error.
DecodedAll(r) ==
  r.pc = "returned" /\ r.ended \in {"marker", "readDone"} /\ r.delivered

\* A well-formed event stream: data lines that carry deltas (and the blank
\* lines, comments and role-only deltas of the wire protocol), then the marker.
WellFormed(script) ==
  /\ script # <<>>
  /\ Last(script) = "done"
  /\ \A k \in 1..(Len(script) - 1) :
       script[k] \in {"delta", "delta2", "role", "comment", "blank"}

\* C1: chunk independence.  For every well-formed event stream and every way
\* of cutting its bytes into chunks, the assistant text when decoding ends is
\* d1 ++ ... ++ dn, and it is the content of the assistant message.
C1_ChunkIndependence ==
  \A i \in RelayIds :
    LET r == relays[i] IN
    (DecodedAll(r) /\ WellFormed(r.script)) =>
      /\ r.assistantContent = Deltas(r.script)
      /\ Deltas(r.script) # <<>> =>
           messages = <<r.userMessage, AssistantMessage(Deltas(r.script))>>

\* A well-formed stream of two deltas, the first a two-byte character, was
\* decoded to its end.
C1_Witness ==
  \E i \in RelayIds :
    /\ DecodedAll(relays[i])
    /\ relays[i].script = <<"delta2", "delta", "done">>
    /\ relays[i].assistantContent = <<EAcute, "H">>

\* C2: a complete data line whose payload is not JSON is skipped: every valid
\* delta that follows it (before the marker) is applied, and the relay does
\* not end in the error path.
C2_MalformedLineSkipped ==
  \A i \in RelayIds :
    LET r == relays[i] IN
    (DecodedAll(r) /\ \E k \in 1..Len(r.script) : r.script[k] = "bad") =>
      /\ r.assistantContent = Deltas(BeforeDone(r.script))
      /\ r.toasts = <<>>

\* C3: once `data: [DONE]` has been processed the call has left the decode
\* loop for good, and in every later state the assistant text is the text of
\* the deltas before the marker: no line after it is applied, whether it
\* came in the same chunk or would come in a later one.
C3_DoneTerminates ==
  \A i \in RelayIds :
    LET r == relays[i] IN
    r.streamDone =>
      /\ r.pc = "returned"
      /\ r.ended = "marker"
      /\ r.assistantContent = Deltas(BeforeDone(r.script))
      /\ r.assistantContent # <<>> =>
           messages = <<r.userMessage, AssistantMessage(r.assistantContent)>>

\* The marker was processed and a delta line followed it in the body.
C3_Witness ==
  \E i \in RelayIds :
    /\ relays[i].streamDone
    /\ relays[i].script = <<"delta", "done", "delta2">>
    /\ relays[i].assistantContent = <<"H">>

\* The message list is what the call of index i found when it was made plus
\* its own user message: the call added and changed no assistant message.
NoAssistantBy(i) ==
  messages \in {Append(relays[i].history, relays[i].userMessage), <<>>}

\* C4: status 429 is reported as RateLimited and status 402 as
\* PaymentRequired, and in both cases nothing is decoded: the body is never
\* read, no assistant message is added or changed, no speech is requested.
C4_RateAndPaymentReported ==
  \A i \in RelayIds :
    LET r == relays[i] IN
    (Known(r) /\ r.status \in {402, 429}) =>
      /\ r.pc = "returned"
      /\ r.status = 429 => RateToast \in {r.toasts[k] : k \in 1..Len(r.toasts)}
      /\ r.status = 402 => PaymentToast \in {r.toasts[k] : k \in 1..Len(r.toasts)}
      /\ ~r.readerOpened
      /\ ~r.delivered
      /\ r.assistantContent = <<>>
      /\ r.voiceCalls = <<>>
      /\ NoAssistantBy(i)

\* A send with voice enabled was answered 429.
C4_Witness ==
  \E i \in RelayIds :
    /\ relays[i].status = 429
    /\ relays[i].voice
    /\ relays[i].pc = "returned"
    /\ messages # <<>>

\* The events that make a relay attempt fail.
Failures == {"noSession", "httpError", "fetchError", "readError"}

\* C5: every failed relay attempt raises exactly one toast.
C5_OneToastPerFailure ==
  \A i \in RelayIds :
    (relays[i].pc = "returned" /\ relays[i].ended \in Failures) =>
      Len(relays[i].toasts) = 1

\* C6: when the transport closes or fails before `data: [DONE]` was
\* processed, the pending buffer is discarded and an error is raised.
C6_IncompleteStreamNotified ==
  \A i \in RelayIds :
    LET r == relays[i] IN
    (r.pc \in {"voice", "returned"} /\ r.ended \in {"readDone", "readError"}) =>
      /\ r.pc = "returned" => r.textBuffer = <<>>
      /\ ErrorToast \in {r.toasts[k] : k \in 1..Len(r.toasts)}

C8_ConversationIsolation ==
  (\A i \in RelayIds : relays[i].conv # conversationId) =>
    (messages = <<>> /\ ~isLoading)

\* The requests of call i.
RequestsOf(i) == {k \in 1..Len(requests) : requests[k].relay = i}

\* C9: the session is obtained before any network call.  A call that got no
\* session (or an error) issues no POST, and every POST carries the token of
\* the session that the same call obtained.
C9_SessionBeforeRequest ==
  /\ \A k \in 1..Len(requests) :
       /\ requests[k].authorization # NoSession
       /\ Known(relays[requests[k].relay]) =>
            requests[k].authorization = relays[requests[k].relay].session
  /\ \A i \in RelayIds :
       /\ Cardinality(RequestsOf(i)) <= 1
       /\ relays[i].ended = "noSession" => RequestsOf(i) = {}
       /\ (Known(relays[i]) /\ relays[i].pc = "getSession") => RequestsOf(i) = {}

\* One call issued its POST and a later call found no session.
C9_Witness ==
  /\ Len(requests) = 1
  /\ \E i \in RelayIds : relays[i].ended = "noSession" /\ RequestsOf(i) = {}

\* C10: when the transport fails after k >= 1 deltas were applied, the
\* assistant message with the text of those k deltas stays in the list: the
\* error path removes and truncates nothing.
C10_PartialOutputRetained ==
  \A i \in RelayIds :
    LET r == relays[i] IN
    (r.ended = "readError" /\ r.assistantContent # <<>>) =>
      /\ \E k \in 1..Len(r.script) :
           r.assistantContent = Deltas(SubSeq(BeforeDone(r.script), 1, k))
      /\ messages = <<r.userMessage, AssistantMessage(r.assistantContent)>>

\* The transport failed after two deltas were applied.
C10_Witness ==
  \E i \in RelayIds :
    /\ relays[i].ended = "readError"
    /\ relays[i].assistantContent = <<"H", EAcute>>
    /\ Len(relays[i].toasts) = 1

\* C11: return to the ready state.  Whenever the busy flag is set, it is
\* eventually cleared, whatever the outcome of the relay, when every awaited
\* call settles.
C11_BusyEventuallyCleared == isLoading ~> ~isLoading

\* A send set the flag, the transport failed during the read, and the flag
\* is clear again.
C11_Witness ==
  \E i \in RelayIds :
    /\ relays[i].ended = "readError"
    /\ relays[i].assistantContent # <<>>
    /\ ~isLoading

\* C12: speech synthesis is requested on successful completion and only
\* then.  A call that requested it had processed `data: [DONE]`, requested it
\* once, after its last delta, with the final text; and a relay that completed
\* with text while voice was enabled requested it.
C12_VoiceOnSuccessOnly ==
  \A i \in RelayIds :
    LET r == relays[i] IN
    /\ r.voiceCalls # <<>> =>
         /\ r.ended = "marker"
         /\ r.pc \in {"voice", "returned"}
         /\ r.voiceCalls = <<r.assistantContent>>
    /\ (r.ended = "marker" /\ r.voice /\ r.assistantContent # <<>>) =>
         Len(r.voiceCalls) = 1

\* C13: a failure of speech synthesis is isolated.  The step in which the
\* call fails raises no toast, issues no request, starts no call of
\* streamChat and leaves the message list (text and audio) as it was; and a
\* relay whose synthesis failed has raised no toast and asked for speech once.
C13_VoiceFailureIsolated ==
  /\ [](\A i \in RelayIds :
          relays[i].voiceFailed =>
            /\ relays[i].toasts = <<>>
            /\ Len(relays[i].voiceCalls) = 1
            /\ Cardinality(RequestsOf(i)) = 1
            /\ \A k \in 1..Len(messages) : messages[k].audioContent # i)
  /\ [][\A i \in RelayIds :
          (relays[i].pc = "voice" /\ relays'[i].voiceFailed) =>
            /\ messages' = messages
            /\ requests' = requests
            /\ Len(relays') = Len(relays)
            /\ relays'[i].toasts = relays[i].toasts
            /\ relays'[i].assistantContent = relays[i].assistantContent]_vars

\* Speech synthesis failed for a relay whose text is in the list, without
\* audio.
C13_Witness ==
  \E i \in RelayIds :
    /\ relays[i].voiceFailed
    /\ relays[i].assistantContent = <<"H", EAcute>>
    /\ messages = <<relays[i].userMessage, AssistantMessage(<<"H", EAcute>>)>>

\* The first of the per-message rules that an entry of the array breaks, in
\* list order: the role is one of the three, the content is a non-empty
\* string, the content has at most 10000 characters.  "" when none is broken.
RECURSIVE FirstEntryViolation(_)
FirstEntryViolation(runs) ==
  IF runs = <<>> THEN ""
  ELSE LET e == Head(runs).entry IN
    IF e.isNull \/ e.role \notin Roles THEN RoleError
    ELSE IF e.content.type # "string" \/ e.content.length < 1 THEN ContentTypeError
    ELSE IF e.content.length > MaxContentLength THEN ContentLengthError
    ELSE FirstEntryViolation(Tail(runs))

\* The first rule that `messages` breaks: array type, emptiness, more than 50
\* entries, then the per-message rules.
FirstViolation(m) ==
  IF m.kind # "array" THEN NotArrayError
  ELSE IF ArrayLength(m.runs) = 0 THEN EmptyError
  ELSE IF ArrayLength(m.runs) > MaxMessages THEN TooManyError
  ELSE FirstEntryViolation(m.runs)

\* The proxy has got past the authentication of a POST whose body is a JSON
\* object.
Authenticated ==
  /\ proxy.method = "POST"
  /\ proxy.user
  /\ proxy.body.json = "object"

\* C14: an authenticated request is answered 400, with the message of the
\* first rule it breaks, exactly when `messages` breaks a rule.
C14_ValidationRejects ==
  Authenticated =>
    LET v == FirstViolation(proxy.body.messages) IN
    /\ v # "" => proxy.response = JsonError(400, v)
    /\ v = "" => proxy.response.status # 400

\* C15 as stated: every request whose credential is absent or invalid is
\* answered 401 and reaches no upstream call.
C15_EveryRequest401 ==
  (proxy.pc = "responded" /\ proxy.credential # "valid") =>
    /\ proxy.response.status = 401
    /\ ~proxy.upstream.called

\* C15: every request other than a preflight (method OPTIONS) whose
\* credential is absent or invalid is answered 401 with a JSON error,
\* whatever its payload; and the upstream provider is called only for a POST
\* that passed the authentication and every validation rule.
C15_AuthBeforeAll ==
  /\ (proxy.pc = "responded" /\ proxy.credential # "valid"
        /\ proxy.method # "OPTIONS") =>
       /\ proxy.response = JsonError(401, UnauthorizedError)
       /\ ~proxy.upstream.called
  /\ proxy.upstream.called =>
       /\ Authenticated
       /\ proxy.credential = "valid"
       /\ FirstViolation(proxy.body.messages) = ""

\* A POST without credential and with a payload that is no array was
\* answered 401.
C15_Witness ==
  /\ proxy.pc = "responded"
  /\ proxy.method = "POST"
  /\ proxy.credential = "absent"
  /\ proxy.body.messages.kind = "string"
  /\ proxy.response.status = 401

\* The proxy answered an authenticated request that breaks no rule, and the
\* answer is not the stream.
UpstreamFailed ==
  /\ Authenticated
  /\ FirstViolation(proxy.body.messages) = ""
  /\ proxy.pc = "responded"
  /\ proxy.upstreamStatus # 200

\* C16: upstream 429 gives 429, upstream 402 gives 402, every other upstream
\* failure (another status, a rejected fetch, no API key) gives 500; the
\* body is a JSON object with an error, and nothing of the upstream body.
C16_StatusMapping ==
  UpstreamFailed =>
    /\ proxy.response.status =
         (IF proxy.upstreamStatus = 429 THEN 429
          ELSE IF proxy.upstreamStatus = 402 THEN 402 ELSE 500)
    /\ proxy.response.contentType = "application/json"
    /\ proxy.response.error # ""
    /\ proxy.response.chunks = <<>>

\* Upstream answered 503 and the proxy answered 500.
C16_Witness ==
  /\ UpstreamFailed
  /\ proxy.upstreamStatus = 503
  /\ proxy.response.status = 500

\* C17: on upstream success the chunks delivered so far, followed by those
\* still to come, are the chunks of the upstream body; at the end the client
\* has them all, as text/event-stream; and nothing is kept of a request
\* once it is answered.
C17_PassThrough ==
  /\ proxy.upstreamStatus = 200 =>
       /\ proxy.pc \in {"stream", "responded"}
       /\ proxy.response.status = 200
       /\ proxy.response.contentType = "text/event-stream"
       /\ proxy.response.chunks \o proxy.chunksIn = proxy.upstreamChunks
       /\ proxy.pc = "responded" => proxy.response.chunks = proxy.upstreamChunks
  /\ proxy.pc = "idle" => proxy = IdleProxy

\* Two different chunks went through.
C17_Witness ==
  /\ proxy.pc = "responded"
  /\ proxy.upstreamChunks = <<"c2", "c1">>
  /\ proxy.response.chunks = <<"c2", "c1">>

\* C18: the messages sent upstream are the fixed instruction followed by the
\* caller's messages, in the caller's order and unchanged, with streaming.
C18_Forwarding ==
  proxy.upstream.called =>
    LET sent == proxy.upstream.messages
        runs == proxy.body.messages.runs
    IN /\ sent = <<Run(1, SystemInstruction)>> \o runs
       /\ ArrayLength(sent) = ArrayLength(runs) + 1
       /\ proxy.upstream.stream

\* A request whose own first message has the system role was forwarded.
C18_Witness ==
  /\ proxy.upstream.called
  /\ Len(proxy.body.messages.runs) = 2
  /\ proxy.body.messages.runs[1].entry = Entry("system", StringContent(MaxContentLength))
  /\ proxy.upstream.messages[1].entry = SystemInstruction

\* C19: when the new user message has attachments, the content of the last
\* message of the request names every attached file.
C19_AttachmentsNamedInText ==
  \A k \in 1..Len(requests) :
    LET r == relays[requests[k].relay]
        text == Last(requests[k].messages).content
    IN \A n \in 1..Len(r.userMessage.files) :
         \E j \in 1..Len(text) : text[j] = r.userMessage.files[n]

\* C20: the `messages` of the POST body are the list as it was when the send
\* was made, each entry reduced to role and content, followed by the new
\* user message, once.
C20_RequestHistory ==
  /\ [](\A k \in 1..Len(requests) :
          LET r == relays[requests[k].relay]
              sent == requests[k].messages
          IN Known(r) =>
               /\ Len(sent) = Len(r.history) + 1
               /\ \A j \in 1..Len(r.history) : sent[j] = RoleContent(r.history[j])
               /\ Last(sent) = RoleContent(r.userMessage))
  /\ [][Len(relays') = Len(relays) + 1 =>
          /\ Last(relays').history = messages
          /\ messages' = Append(messages, Last(relays').userMessage)]_vars

\* The second request carries the user message and the partial answer of a
\* turn that failed, then the new message.
C20_Witness ==
  /\ Len(requests) = 2
  /\ Len(requests[2].messages) = 3
  /\ requests[2].messages[2] = [role |-> "assistant", content |-> <<"H">>]
  /\ relays[2].history = SubSeq(messages, 1, 2)

\* The second relay has been given everything the first one was given and
\* has returned.
TwinDone ==
  /\ Len(relays) = 2
  /\ twin.runs # <<>>
  /\ relays[2].pc = "returned"
  /\ relays[2].ended \in ReadEndings

InProgress(i, k) ==
  /\ relays[i].pc = "read"
  /\ relays[i].assistantContent # <<>>
  /\ k = Len(messages)
  /\ messages[k].role = "assistant"
  /\ messages[k].content = relays[i].assistantContent

\* C22: message immutability.  In a step that is not a change of
\* conversation the list loses no entry, no entry changes its role, and an
\* entry changes its content only when it is the assistant message that a
\* relay is building, and then to the new running text of that relay: user
\* messages and the assistant messages of relays that returned keep their
\* content.
C22_MessageImmutability ==
  [][switches' = switches =>
       /\ Len(messages') >= Len(messages)
       /\ \A k \in 1..Len(messages) :
            /\ messages'[k].role = messages[k].role
            /\ messages'[k].content # messages[k].content =>
                 \E i \in RelayIds :
                   /\ InProgress(i, k)
                   /\ messages'[k].content = relays'[i].assistantContent]_vars

\* The second relay of a conversation is building its message, after a user
\* message and the assistant message of the first relay.
C22_Witness ==
  /\ Len(relays) = 2
  /\ Len(messages) = 4
  /\ messages[2].role = "assistant"
  /\ messages[2].content = <<"H">>
  /\ InProgress(2, 4)

\* The entries of the list that hold the audio synthesized for relay i.
AudioOf(i) == {k \in 1..Len(messages) : messages[k].audioContent = i}

\* C23: the audio synthesized for a relay is attached to the assistant
\* message whose content is the text that was sent to speech synthesis, and
\* to no other message: at most one entry holds it, that entry is an
\* assistant message, and (while the model still holds the relay) it is the
\* last entry and its content is the one text the relay had synthesized.
C23_AudioTarget ==
  \A k \in 1..Len(messages) :
    messages[k].audioContent # 0 =>
      LET i == messages[k].audioContent IN
      /\ i \in RelayIds
      /\ messages[k].role = "assistant"
      /\ AudioOf(i) = {k}
      /\ Known(relays[i]) =>
           /\ relays[i].pc = "returned"
           /\ relays[i].voiceCalls = <<messages[k].content>>
           /\ k = Len(messages)

\* Two relays of one conversation got their audio: each assistant message
\* holds the audio of its own relay.
C23_Witness ==
  /\ Len(messages) = 4
  /\ messages[2].audioContent = 1
  /\ messages[4].audioContent = 2
  /\ messages[4].content # messages[2].content

\* The list as handleSend left it for relay r, and the assistant message
\* with the running text of r and the given audio.
SentList(r) == Append(r.history, r.userMessage)
BuiltMessage(r, audio) == [AssistantMessage(r.assistantContent) EXCEPT !.audioContent = audio]

\* C24: the accumulator.  The first non-empty delta of a relay appends one
\* assistant message to the list and every later delta replaces the content
\* of that message by the running text; the entries before it stay as they
\* were.  So at any time the list of the latest relay is the list as the
\* send left it, followed by nothing (no text yet) or by exactly one
\* assistant message that holds the whole running text; after a change of
\* conversation it is empty or that one message alone.
C24_AccumulatorStep ==
  relays # <<>> =>
    LET i == Len(relays)
        r == relays[i]
    IN IF r.assistantContent = <<>>
       THEN messages \in {SentList(r), <<>>}
       ELSE \/ messages = <<>>
            \/ \E audio \in {0, i} :
                 messages \in {Append(SentList(r), BuiltMessage(r, audio)),
                               <<BuiltMessage(r, audio)>>}

\* The second relay has applied two deltas: its list is the three entries
\* of the send and one assistant message with both.
C24_Witness ==
  /\ Len(relays) = 2
  /\ relays[2].assistantContent = <<"H", EAcute>>
  /\ Len(relays[2].history) = 2
  /\ messages = Append(SentList(relays[2]), BuiltMessage(relays[2], 0))

\* d1 ++ ... ++ dk for every k: the texts that are the deltas of the first k
\* lines of a script.
DeltaPrefixes(script) == {Deltas(SubSeq(script, 1, k)) : k \in 0..Len(script)}

\* C25: prefix monotonicity.  In every state the running text of a relay is
\* the concatenation, in stream order, of the deltas of the first k lines of
\* the stream before its marker, for some k; and a step leaves the running
\* text as it was or extends it at its end (by the next deltas of the stream,
\* as many as the chunk of that step completed).
C25_PrefixMonotonic ==
  /\ [](\A i \in RelayIds :
         relays[i].assistantContent \in DeltaPrefixes(BeforeDone(relays[i].script)))
  /\ [][\A i \in RelayIds :
          StartsWith(relays'[i].assistantContent, relays[i].assistantContent)]_vars

\* A relay has applied the first of two deltas and the second has not been
\* delivered yet.
C25_Witness ==
  \E i \in RelayIds :
    /\ relays[i].pc = "read"
    /\ relays[i].script = <<"delta", "delta2", "done">>
    /\ relays[i].assistantContent = <<"H">>
    /\ relays[i].wire # <<>>

\* The text of a body, and for a relay the text it has still to take in:
\* its buffer followed by the text of the bytes not yet given to the loop.
TextOf(script) == Decode(Bytes(script), <<>>).text
Ahead(r) == r.textBuffer \o Decode(r.wire, r.pending).text

\* The buffer starts with a complete line whose payload is not JSON.
Blocked(r) == StartsWith(r.textBuffer, LineBytes("bad"))

\* C26: pushback.  When the line loop has been left with a complete line in
\* the buffer, that line is a data line whose payload failed to parse, put
\* back with its newline in front of what followed it: the buffer and the
\* bytes still to come are exactly the body from that line on (no byte after
\* the line is lost or moved), the lines before it were processed and no
\* line after it was (the loop stopped at the line).
C26_Pushback ==
  \A i \in RelayIds :
    LET r == relays[i]
        b == IndexOf(r.script, "bad")
    IN (r.pc = "read" /\ IndexOf(r.textBuffer, "\n") # 0) =>
         /\ b # 0
         /\ Blocked(r)
         /\ Ahead(r) = TextOf(SubSeq(r.script, b, Len(r.script)))
         /\ r.assistantContent = Deltas(SubSeq(r.script, 1, b - 1))
         /\ ~r.streamDone

\* A malformed line was put back in front of a delta line that arrived in
\* the same chunk, after a delta that was applied.
C26_Witness ==
  \E i \in RelayIds :
    /\ relays[i].pc = "read"
    /\ relays[i].script = <<"delta2", "bad", "delta">>
    /\ relays[i].textBuffer = LineBytes("bad") \o LineBytes("delta")
    /\ relays[i].assistantContent = <<EAcute>>

\* The body has a malformed data line before its marker (if it has one).
BadBeforeDone(script) ==
  /\ IndexOf(script, "bad") # 0
  /\ IndexOf(script, "done") # 0 => IndexOf(script, "bad") < IndexOf(script, "done")

\* C28: head-of-line blocking.  A relay whose body has a malformed data line
\* before the marker never processes a line after it: its running text is
\* made of deltas before that line only and the marker is never seen.  Once
\* the line is at the front of the buffer, every later chunk leaves it
\* there: the text and the list stay as they are, the buffer does not get
\* shorter, and the relay leaves the decode loop only when the transport
\* closes or fails.
C28_HeadOfLineBlocking ==
  /\ [](\A i \in RelayIds :
         BadBeforeDone(relays[i].script) =>
           /\ relays[i].assistantContent \in
                DeltaPrefixes(SubSeq(relays[i].script, 1,
                                     IndexOf(relays[i].script, "bad") - 1))
           /\ ~relays[i].streamDone
           /\ relays[i].ended \in {"no", "readDone", "readError"})
  /\ [][\A i \in RelayIds :
          (relays[i].pc = "read" /\ Blocked(relays[i])) =>
            /\ relays'[i].assistantContent = relays[i].assistantContent
            /\ messages' = messages
            /\ IF relays'[i].pc = "read"
               THEN /\ Blocked(relays'[i])
                    /\ Len(relays'[i].textBuffer) >= Len(relays[i].textBuffer)
               ELSE relays'[i].ended \in {"readDone", "readError"}]_vars

\* The whole of a body with a malformed line, a delta and the marker was
\* delivered; the transport closed; the relay has no text.
C28_Witness ==
  \E i \in RelayIds :
    /\ relays[i].script = <<"bad", "delta", "done">>
    /\ DecodedAll(relays[i])
    /\ relays[i].ended = "readDone"
    /\ relays[i].assistantContent = <<>>
    /\ messages = <<relays[i].userMessage>>

\* The kinds of line the loop passes over: whitespace only, a comment, a
\* line without the `data: ` prefix, a data line whose JSON has no content.
IgnoredKinds == {"blank", "comment", "event", "role"}

\* C27: ignored lines leave the state unchanged and do not stop the loop.
\* While the lines of a body before its marker are all of an ignored kind,
\* the relay has no text and the list has no assistant message of it; and
\* when a body without a malformed line has been read to its end, the text
\* is the deltas of its lines before the marker, as if the ignored lines
\* were not there, the list is the user message followed by the assistant
\* message with that text (by nothing if there is no text), and the marker,
\* if the body has one, was reached.
C27_IgnoredLines ==
  \A i \in RelayIds :
    LET r == relays[i]
        lines == BeforeDone(r.script)
    IN /\ (\A k \in 1..Len(lines) : lines[k] \in IgnoredKinds) =>
            /\ r.assistantContent = <<>>
            /\ r.pc # "getSession" => messages = <<r.userMessage>>
       /\ (DecodedAll(r) /\ IndexOf(lines, "bad") = 0) =>
            /\ r.assistantContent = Deltas(lines)
            /\ messages = IF Deltas(lines) = <<>> THEN <<r.userMessage>>
                          ELSE <<r.userMessage, AssistantMessage(Deltas(lines))>>
            /\ IndexOf(r.script, "done") # 0 => r.ended = "marker"

\* A body of a line without the prefix, a role-only delta and the marker
\* was read to its end: the marker ended the relay and the list holds the
\* user message only.
C27_Witness ==
  \E i \in RelayIds :
    /\ relays[i].script = <<"event", "role", "done">>
    /\ DecodedAll(relays[i])
    /\ relays[i].ended = "marker"
    /\ messages = <<relays[i].userMessage>>

\* C29: the decode loop terminates.  When the transport closes the body,
\* a relay that is in its decode loop leaves it; and every pass of the outer
\* loop that stays in the loop has taken bytes from the body, which is
\* finite (the line loop of the pass itself is a terminating computation:
\* each of its iterations removes a line from the buffer or leaves, the
\* pushback included).
C29_DecodeTerminates ==
  /\ \A i \in {1} :
       (Len(relays) >= i /\ relays[i].pc = "read")
         ~> (Len(relays) >= i /\ relays[i].pc # "read")
  /\ [][\A i \in RelayIds :
          (relays[i].pc = "read" /\ relays'[i].pc = "read"
             /\ relays'[i] # relays[i]) =>
            Len(relays'[i].wire) < Len(relays[i].wire)]_vars

\* A relay left the decode loop by the close of the transport with a
\* malformed line still in front of two complete lines of its body.
C29_Witness ==
  \E i \in RelayIds :
    /\ relays[i].script = <<"bad", "bad", "delta2">>
    /\ DecodedAll(relays[i])
    /\ relays[i].ended = "readDone"

\* The decode loop of the call was left without a transport error.
DecodeEnded(r) == r.ended \in {"marker", "readDone"}

\* C30: the busy flag spans the voice call.  The voice setting of a relay is
\* the one of the send and does not change with the toggle.  A relay that
\* leaves its decode loop without a transport error, with that setting on
\* and with text, requests the synthesis of that text and keeps the busy
\* flag set; otherwise it requests nothing and the flag is cleared in the
\* same step.  The flag stays set, in the state and in the render, while
\* the synthesis is pending, a send event in that time starts no relay, and
\* the flag is cleared in the step in which the synthesis returns.
C30_BusySpansVoice ==
  /\ [](\A i \in RelayIds :
         /\ Active(relays[i]) => isLoading
         /\ relays[i].pc = "voice" =>
              /\ viewLoading
              /\ relays[i].voice
              /\ relays[i].voiceCalls = <<relays[i].assistantContent>>
              /\ relays[i].assistantContent # <<>>
         /\ (relays[i].pc = "returned" /\ DecodeEnded(relays[i])
               /\ ~(relays[i].voice /\ relays[i].assistantContent # <<>>)) =>
              relays[i].voiceCalls = <<>>)
  /\ [][/\ Len(relays') > Len(relays) => Last(relays').voice = voiceEnabled
        /\ \A i \in RelayIds :
             /\ Known(relays'[i]) => relays'[i].voice = relays[i].voice
             /\ (relays[i].pc = "read" /\ relays'[i].pc # "read") =>
                  IF /\ relays[i].voice
                     /\ relays'[i].assistantContent # <<>>
                     /\ DecodeEnded(relays'[i])
                  THEN relays'[i].pc = "voice" /\ isLoading'
                  ELSE relays'[i].pc = "returned" /\ ~isLoading'
             /\ relays[i].pc = "voice" =>
                  /\ Len(relays') = Len(relays)
                  /\ requests' = requests
                  /\ relays'[i].pc # "voice" => ~isLoading']_vars

\* Voice was on at the send and was switched off afterwards; the synthesis
\* is pending and a second send event was refused.
C30_Witness ==
  /\ Len(relays) = 1
  /\ relays[1].pc = "voice"
  /\ ~voiceEnabled
  /\ sendEvents = 2
  /\ input # <<>>

=============================================================================
